---- MODULE Spec2Model ----
(***************************************************************************)
(* HexaSweeper: the hexagonal Minesweeper board engine of src/src/store.ts *)
(* (zustand store), with the two drivers that call it: the 40 ms tick of   *)
(* App.tsx and the grid component that installs a board when the store has *)
(* none.  A cell key `p-q-r` is modelled by the pair <<q, r>> it encodes.   *)
(***************************************************************************)
EXTENDS Integers, Sequences, FiniteSets, TLC

\* The store's fields, and pendingInits: the setTimeout callbacks of
\* resetGame that have not run yet.
VARIABLES pillarConfigs, cellStates, gameStatus, mineCount, flagCount,
          revealQueue, isRevealing, immortalMode, gameResetTrigger,
          pendingInits

\* History, not a field of the store: whether toggleFlag has changed a flag
\* since the board was installed.
VARIABLE flagToggled

\* History: the pending keys that addToRevealQueue has appended to the
\* queue (the others were put there by the expansion of a tick).
VARIABLE clickedKeys

\* The locals of a call of generateSolvablePuzzle taken step by step:
\* [pc, pillarConfigs, targetMineCount, attempt, minePositions, randomIndex,
\* actualMineCount].
VARIABLE placement

storeVars == <<pillarConfigs, cellStates, gameStatus, mineCount, flagCount,
               revealQueue, isRevealing, immortalMode, gameResetTrigger,
               pendingInits, flagToggled, clickedKeys>>

vars == <<storeVars, placement>>

(* ------------------------------ bounds --------------------------------- *)
\* Math.random() takes the values k / 10, k = 0 .. MaxRandom-1.
MaxRandom == 2
\* The player clicks the cells of the columns q = 0 .. MaxClickQ.
MaxClickQ == 2
\* resetGame is called at most MaxResets times (gameResetTrigger).
MaxResets == 1
\* The player clicks a cell while fewer than MaxQueue entries are pending.
MaxQueue == 1
\* The player keeps at most MaxFlags flags on the board.
MaxFlags == 1
\* Requested mine counts tried on initializeGame taken alone.
MaxTarget == 3
\* In the sessions that click ahead, a click is taken while fewer than
\* MaxPending entries are pending.
MaxPending == 2
\* Requested mine counts tried on generateSolvablePuzzle taken step by step.
MaxPlaceTarget == 4

(* --------------------------- small helpers ----------------------------- *)
Min(a, b) == IF a <= b THEN a ELSE b

Range(s) == {s[i] : i \in 1..Len(s)}

Contains(s, e) == \E i \in 1..Len(s) : s[i] = e

\* Math.floor(n * 0.2), Math.floor(n * 0.15)
Floor20(n) == (n * 20) \div 100
Floor15(n) == (n * 15) \div 100

(* ------------------------------ layouts -------------------------------- *)
\* The grid generators walk q in the outer loop and r in the inner loop and
\* push the key of every cell that is inside the boundary and not a gap.
RECURSIVE GridFrom(_, _, _, _, _)
GridFrom(q, r, cols, rows, gaps) ==
    IF q >= cols THEN <<>>
    ELSE IF r >= rows THEN GridFrom(q + 1, 0, cols, rows, gaps)
    ELSE IF <<q, r>> \in gaps THEN GridFrom(q, r + 1, cols, rows, gaps)
    ELSE <<(<<q, r>>)>> \o GridFrom(q, r + 1, cols, rows, gaps)

generateGrid(cols, rows, gaps) == GridFrom(0, 0, cols, rows, gaps)

\* Seven cells of a 3 x 3 grid: the corner <<0,0>> and its neighbour <<0,1>>
\* touch the rest of the board only through <<1,0>>.
Gap7 == generateGrid(3, 3, {<<0, 2>>, <<1, 1>>})
\* Seven cells: a centre <<1,1>> with its six neighbours.
Flower7 == generateGrid(3, 3, {<<0, 0>>, <<2, 2>>})
\* Fourteen cells in two rows of seven.
Strip14 == generateGrid(7, 2, {})
\* Ten cells in two rows of five.
Strip10 == generateGrid(5, 2, {})
\* Five cells in a row, and three.
Line5 == generateGrid(5, 1, {})
Line3 == generateGrid(3, 1, {})
\* Twenty cells in five columns of four: floor(20 * 0.2) = 4 mines.
Grid20 == generateGrid(5, 4, {})

\* The boards the grid generators produce in this model (every cell a gap
\* gives the empty one).
Layouts == {<<>>, Line3, Gap7}

\* The boards of the normal-mode sessions: one mine, and two mines
\* (floor(14 * 0.15) = 2).
NormalLayouts == {Gap7, Strip14}

\* The boards initializeGame is applied to when taken alone.
GenLayouts == {Line5, Flower7, Strip10, Strip14}

\* The boards generateSolvablePuzzle is taken step by step on.
PlaceLayouts == {Strip10, Grid20}

\* Every key a click can name, and one key that is on no board.
AbsentKey == <<9, 9>>
AllKeys ==
    {k \in UNION {Range(l) : l \in Layouts \cup NormalLayouts} : k[1] <= MaxClickQ}
        \cup {AbsentKey}

(* ---------------------------- getNeighbors ----------------------------- *)
neighborOffsets ==
    << <<1, 0>>, <<1, -1>>, <<0, -1>>, <<-1, 0>>, <<-1, 1>>, <<0, 1>> >>

\* Mutant: the second offset written [1, 1] instead of [1, -1].
getNeighbors_WrongOffset(key, pillarMap) ==
    LET offsets == << <<1, 0>>, <<1, 1>>, <<0, -1>>, <<-1, 0>>, <<-1, 1>>, <<0, 1>> >>
        cand == [i \in 1..6 |-> <<key[1] + offsets[i][1], key[2] + offsets[i][2]>>]
        Has(k) == k \in pillarMap
    IN  SelectSeq(cand, Has)

\* pillarMap is the set of keys of the board.
getNeighbors(key, pillarMap) ==
    LET cand == [i \in 1..6 |-> <<key[1] + neighborOffsets[i][1],
                                  key[2] + neighborOffsets[i][2]>>]
        Has(k) == k \in pillarMap
    IN  SelectSeq(cand, Has)

\* neighbors.filter(k => mines has k).length
CountIn(neighbors, S) == Cardinality({i \in 1..Len(neighbors) : neighbors[i] \in S})

(* ------------------------ generateSolvablePuzzle ----------------------- *)
\* The indexes Math.floor(Math.random() * totalCells) can take (0-based).
RandomIndexes(totalCells, maxRandom) ==
    {(k * totalCells) \div 10 : k \in 0..(Min(maxRandom, 10) - 1)}

\* The while loop of the first attempt: every set of mines it can end with.
\* A draw that is rejected, or that names a mine already placed, leaves the
\* set as it is and the loop draws again.
RECURSIVE PlaceMines(_, _, _, _, _)
PlaceMines(minePositions, pillarConfigs_, pillarMap, maxMineCount, maxRandom) ==
    IF ~(Cardinality(minePositions) < maxMineCount) THEN {minePositions}
    ELSE UNION { PlaceMines(minePositions \cup {pillarConfigs_[i + 1]},
                            pillarConfigs_, pillarMap, maxMineCount, maxRandom) :
                 i \in { j \in RandomIndexes(Len(pillarConfigs_), maxRandom) :
                           /\ pillarConfigs_[j + 1] \notin minePositions
                           /\ CountIn(getNeighbors(pillarConfigs_[j + 1], pillarMap),
                                      minePositions) < 3 } }

\* Mutant: the 20% cap left out of maxMineCount.
generateSolvablePuzzle_NoCap(pillarConfigs_, pillarMap, targetMineCount, maxRandom) ==
    PlaceMines({}, pillarConfigs_, pillarMap, targetMineCount, maxRandom)

\* The sets of mines generateSolvablePuzzle can return; actualMineCount is
\* the size of the set returned.  The first attempt always returns.
generateSolvablePuzzle(pillarConfigs_, pillarMap, targetMineCount, maxRandom) ==
    LET totalCells == Len(pillarConfigs_)
        maxMineCount == Min(targetMineCount, Floor20(totalCells))
    IN  PlaceMines({}, pillarConfigs_, pillarMap, maxMineCount, maxRandom)

(* ----------------------------- initializeGame -------------------------- *)
\* The cell states initializeGame builds for a set of mines.
NewCellStates(pillarConfigs_, minePositions) ==
    LET pillarMap == Range(pillarConfigs_)
    IN  [k \in pillarMap |->
            [isMine |-> k \in minePositions,
             isRevealed |-> FALSE,
             isFlagged |-> FALSE,
             neighborMineCount |-> CountIn(getNeighbors(k, pillarMap), minePositions),
             isImmortalMine |-> FALSE]]

initializeGame(pillarConfigs_, mineCount_, maxRandom) ==
    \E minePositions \in generateSolvablePuzzle(pillarConfigs_, Range(pillarConfigs_),
                                                mineCount_, maxRandom) :
        /\ pillarConfigs' = pillarConfigs_
        /\ cellStates' = NewCellStates(pillarConfigs_, minePositions)
        /\ mineCount' = Cardinality(minePositions)
        /\ flagCount' = 0
        /\ gameStatus' = "playing"
        /\ flagToggled' = FALSE

(* ------------------------------- the store ----------------------------- *)
\* No call of generateSolvablePuzzle is under way.
NoPlacement ==
    [pc |-> "idle", pillarConfigs |-> <<>>, targetMineCount |-> 0, attempt |-> 0,
     minePositions |-> {}, randomIndex |-> -1, actualMineCount |-> -1]

Init ==
    /\ pillarConfigs = <<>>
    /\ cellStates = <<>>
    /\ gameStatus = "playing"
    /\ mineCount = 0
    /\ flagCount = 0
    /\ revealQueue = <<>>
    /\ isRevealing = FALSE
    /\ immortalMode = FALSE
    /\ gameResetTrigger = 0
    /\ pendingInits = 0
    /\ flagToggled = FALSE
    /\ placement = NoPlacement
    /\ clickedKeys = {}

\* HexGrid: with no board in the store, generate one and install it.
HexGridInitFrom(layouts) ==
    /\ Len(pillarConfigs) = 0
    /\ \E arr \in layouts :
          IF Len(arr) > 0
          THEN initializeGame(arr, Floor15(Len(arr)), MaxRandom)
          ELSE UNCHANGED <<placement, clickedKeys, pillarConfigs, cellStates, mineCount, flagCount, gameStatus,
                           flagToggled>>
    /\ UNCHANGED <<placement, clickedKeys, revealQueue, isRevealing, immortalMode, gameResetTrigger, pendingInits>>

HexGridInit == HexGridInitFrom(Layouts)

\* resetGame's setTimeout callback, 50 ms later: generate a board and
\* install it when it is not empty.
DelayedInit ==
    /\ pendingInits > 0
    /\ pendingInits' = pendingInits - 1
    /\ \E newPillars \in Layouts :
          IF Len(newPillars) > 0
          THEN initializeGame(newPillars, Floor15(Len(newPillars)), MaxRandom)
          ELSE UNCHANGED <<placement, clickedKeys, pillarConfigs, cellStates, mineCount, flagCount, gameStatus,
                           flagToggled>>
    /\ UNCHANGED <<placement, clickedKeys, revealQueue, isRevealing, immortalMode, gameResetTrigger>>

\* Mutant: revealQueue and isRevealing left out of the reset.
resetGame_KeepsQueue ==
    /\ gameResetTrigger < MaxResets
    /\ pillarConfigs' = <<>>
    /\ cellStates' = <<>>
    /\ gameStatus' = "playing"
    /\ mineCount' = 0
    /\ flagCount' = 0
    /\ gameResetTrigger' = gameResetTrigger + 1
    /\ pendingInits' = pendingInits + 1
    /\ flagToggled' = FALSE
    /\ clickedKeys' = {}
    /\ UNCHANGED <<placement, immortalMode, revealQueue, isRevealing>>

\* The set() of resetGame; its setTimeout callback is DelayedInit.
resetGame ==
    /\ gameResetTrigger < MaxResets
    /\ pillarConfigs' = <<>>
    /\ cellStates' = <<>>
    /\ gameStatus' = "playing"
    /\ mineCount' = 0
    /\ flagCount' = 0
    /\ revealQueue' = <<>>
    /\ isRevealing' = FALSE
    /\ gameResetTrigger' = gameResetTrigger + 1
    /\ pendingInits' = pendingInits + 1
    /\ flagToggled' = FALSE
    /\ clickedKeys' = {}
    /\ UNCHANGED <<placement, immortalMode>>

setImmortalMode(immortal) ==
    /\ immortalMode' = immortal
    /\ UNCHANGED <<placement, clickedKeys, pillarConfigs, cellStates, gameStatus, mineCount, flagCount,
                   revealQueue, isRevealing, gameResetTrigger, pendingInits, flagToggled>>

(* ------------------------------- revealCell ---------------------------- *)
\* The synchronous reveal.  st = [cells, status] is what get() returns at
\* each point of the recursion; pillarConfigs, mineCount and immortalMode do
\* not change during the call.
RevealedCount(cells) == Cardinality({k \in DOMAIN cells : cells[k].isRevealed})

RECURSIVE revealCellRec(_, _)
RECURSIVE revealNeighbors(_, _, _)
revealCellRec(key, st) ==
    IF st.status # "playing" THEN st
    ELSE IF key \notin DOMAIN st.cells THEN st
    ELSE IF st.cells[key].isRevealed \/ st.cells[key].isFlagged THEN st
    ELSE
      LET cell == st.cells[key]
          s1 == [st EXCEPT !.cells[key] = [cell EXCEPT !.isRevealed = TRUE]]
      IN  IF cell.isMine
          THEN IF immortalMode
               THEN [s1 EXCEPT !.cells[key] =
                        [cell EXCEPT !.isRevealed = TRUE, !.isFlagged = TRUE,
                                     !.isImmortalMine = TRUE]]
               ELSE [s1 EXCEPT !.status = "lost"]
          ELSE
            LET s2 == IF cell.neighborMineCount = 0
                      THEN revealNeighbors(getNeighbors(key, Range(pillarConfigs)), 1, s1)
                      ELSE s1
                revealedCount == RevealedCount(s2.cells)
                totalCells == Len(pillarConfigs)
            IN  IF revealedCount = totalCells - mineCount
                THEN [s2 EXCEPT !.status = "won"]
                ELSE s2

\* neighbors.forEach(neighborKey => get().revealCell(neighborKey))
revealNeighbors(neighbors, i, st) ==
    IF i > Len(neighbors) THEN st
    ELSE LET next == revealCellRec(neighbors[i], st)
         IN  IF next.status = "playing"
             THEN revealNeighbors(neighbors, i + 1, next)
             ELSE next

revealCell(key) ==
    LET st == revealCellRec(key, [cells |-> cellStates, status |-> gameStatus])
    IN  /\ cellStates' = st.cells
        /\ gameStatus' = st.status
        /\ UNCHANGED <<placement, clickedKeys, pillarConfigs, mineCount, flagCount, revealQueue, isRevealing,
                       immortalMode, gameResetTrigger, pendingInits, flagToggled>>

(* ------------------------------- toggleFlag ---------------------------- *)
\* Mutant: the check of gameStatus left out.
toggleFlag_NoStatusCheck(key) ==
    IF key \notin DOMAIN cellStates THEN UNCHANGED vars
    ELSE IF cellStates[key].isRevealed THEN UNCHANGED vars
    ELSE
      LET cell == cellStates[key]
          newFlagged == ~cell.isFlagged
          flagDelta == IF newFlagged THEN 1 ELSE -1
      IN  /\ newFlagged => flagCount < MaxFlags
          /\ cellStates' = [cellStates EXCEPT ![key] = [cell EXCEPT !.isFlagged = newFlagged]]
          /\ flagCount' = flagCount + flagDelta
          /\ flagToggled' = TRUE
          /\ UNCHANGED <<placement, clickedKeys, pillarConfigs, gameStatus, mineCount, revealQueue, isRevealing,
                         immortalMode, gameResetTrigger, pendingInits>>

\* Mutant: the isRevealed test left out.
toggleFlag_NoRevealedCheck(key) ==
    IF gameStatus # "playing" THEN UNCHANGED vars
    ELSE IF key \notin DOMAIN cellStates THEN UNCHANGED vars
    ELSE
      LET cell == cellStates[key]
          newFlagged == ~cell.isFlagged
          flagDelta == IF newFlagged THEN 1 ELSE -1
      IN  /\ newFlagged => flagCount < MaxFlags
          /\ cellStates' = [cellStates EXCEPT ![key] = [cell EXCEPT !.isFlagged = newFlagged]]
          /\ flagCount' = flagCount + flagDelta
          /\ flagToggled' = TRUE
          /\ UNCHANGED <<placement, clickedKeys, pillarConfigs, gameStatus, mineCount, revealQueue, isRevealing,
                         immortalMode, gameResetTrigger, pendingInits>>

\* Mutant: flagDelta is 1 whether the flag is set or taken away.
toggleFlag_AlwaysIncrements(key) ==
    IF gameStatus # "playing" THEN UNCHANGED vars
    ELSE IF key \notin DOMAIN cellStates THEN UNCHANGED vars
    ELSE IF cellStates[key].isRevealed THEN UNCHANGED vars
    ELSE
      LET cell == cellStates[key]
          newFlagged == ~cell.isFlagged
          flagDelta == 1
      IN  /\ newFlagged => flagCount < MaxFlags
          /\ cellStates' = [cellStates EXCEPT ![key] = [cell EXCEPT !.isFlagged = newFlagged]]
          /\ flagCount' = flagCount + flagDelta
          /\ flagToggled' = TRUE
          /\ UNCHANGED <<placement, clickedKeys, pillarConfigs, gameStatus, mineCount, revealQueue, isRevealing,
                         immortalMode, gameResetTrigger, pendingInits>>

toggleFlag(key) ==
    IF gameStatus # "playing" THEN UNCHANGED vars
    ELSE IF key \notin DOMAIN cellStates THEN UNCHANGED vars
    ELSE IF cellStates[key].isRevealed THEN UNCHANGED vars
    ELSE
      LET cell == cellStates[key]
          newFlagged == ~cell.isFlagged
          flagDelta == IF newFlagged THEN 1 ELSE -1
      IN  /\ newFlagged => flagCount < MaxFlags
          /\ cellStates' = [cellStates EXCEPT ![key] = [cell EXCEPT !.isFlagged = newFlagged]]
          /\ flagCount' = flagCount + flagDelta
          /\ flagToggled' = TRUE
          /\ UNCHANGED <<placement, clickedKeys, pillarConfigs, gameStatus, mineCount, revealQueue, isRevealing,
                         immortalMode, gameResetTrigger, pendingInits>>

(* ---------------------------- the reveal queue ------------------------- *)
\* Mutant: the isFlagged test left out.
addToRevealQueue_NoFlagCheck(key) ==
    IF \/ key \notin DOMAIN cellStates
       \/ cellStates[key].isRevealed
       \/ gameStatus # "playing"
    THEN UNCHANGED vars
    ELSE /\ revealQueue' = Append(revealQueue, key)
         /\ isRevealing' = TRUE
         /\ clickedKeys' = clickedKeys \cup {key}
         /\ UNCHANGED <<placement, pillarConfigs, cellStates, gameStatus, mineCount, flagCount,
                        immortalMode, gameResetTrigger, pendingInits, flagToggled>>

\* Mutant: isRevealing left out of the update.
addToRevealQueue_NoTick(key) ==
    IF \/ key \notin DOMAIN cellStates
       \/ cellStates[key].isRevealed
       \/ cellStates[key].isFlagged
       \/ gameStatus # "playing"
    THEN UNCHANGED vars
    ELSE /\ revealQueue' = Append(revealQueue, key)
         /\ clickedKeys' = clickedKeys \cup {key}
         /\ UNCHANGED <<placement, pillarConfigs, cellStates, gameStatus, mineCount, flagCount,
                        isRevealing, immortalMode, gameResetTrigger, pendingInits,
                        flagToggled>>

\* Mutant: the key is put in front of the queue.
addToRevealQueue_AtFront(key) ==
    IF \/ key \notin DOMAIN cellStates
       \/ cellStates[key].isRevealed
       \/ cellStates[key].isFlagged
       \/ gameStatus # "playing"
    THEN UNCHANGED vars
    ELSE /\ revealQueue' = <<key>> \o revealQueue
         /\ isRevealing' = TRUE
         /\ clickedKeys' = clickedKeys \cup {key}
         /\ UNCHANGED <<placement, pillarConfigs, cellStates, gameStatus, mineCount, flagCount,
                        immortalMode, gameResetTrigger, pendingInits, flagToggled>>

\* Mutant: the isRevealed test left out.
addToRevealQueue_NoRevealedCheck(key) ==
    IF \/ key \notin DOMAIN cellStates
       \/ cellStates[key].isFlagged
       \/ gameStatus # "playing"
    THEN UNCHANGED vars
    ELSE /\ revealQueue' = Append(revealQueue, key)
         /\ isRevealing' = TRUE
         /\ clickedKeys' = clickedKeys \cup {key}
         /\ UNCHANGED <<placement, pillarConfigs, cellStates, gameStatus, mineCount, flagCount,
                        immortalMode, gameResetTrigger, pendingInits, flagToggled>>

addToRevealQueue(key) ==
    IF \/ key \notin DOMAIN cellStates
       \/ cellStates[key].isRevealed
       \/ cellStates[key].isFlagged
       \/ gameStatus # "playing"
    THEN UNCHANGED vars
    ELSE /\ revealQueue' = Append(revealQueue, key)
         /\ isRevealing' = TRUE
         /\ clickedKeys' = clickedKeys \cup {key}
         /\ UNCHANGED <<placement, pillarConfigs, cellStates, gameStatus, mineCount, flagCount,
                        immortalMode, gameResetTrigger, pendingInits, flagToggled>>

\* Mutant: slice(0), the front entry is not removed.
QueueRest_KeepsFront(queue) == queue

\* Mutant: the queue is emptied, as the loss branch does.
QueueRest_DropsAll(queue) == <<>>

\* Mutant: slice(2), the entry behind the front one is dropped with it.
QueueRest_DropsTwo(queue) == SubSeq(queue, 3, Len(queue))

\* revealQueue.slice(1)
QueueRest(queue) == Tail(queue)

\* Mutant: the isMine test left out, every cell is shown.
RevealAllMines_EveryCell(cells) ==
    [k \in DOMAIN cells |-> [cells[k] EXCEPT !.isRevealed = TRUE]]

\* Mutant: a mine that is shown is rebuilt without its isMine mark.
RevealAllMines_Defuses(cells) ==
    [k \in DOMAIN cells |->
        IF cells[k].isMine THEN [cells[k] EXCEPT !.isRevealed = TRUE, !.isMine = FALSE]
        ELSE cells[k]]

\* Mutant: a mine that is shown loses its flag.
RevealAllMines_ClearsFlags(cells) ==
    [k \in DOMAIN cells |->
        IF cells[k].isMine THEN [cells[k] EXCEPT !.isRevealed = TRUE, !.isFlagged = FALSE]
        ELSE cells[k]]

\* The loss branch: every mine of the board is shown.
RevealAllMines(cells) ==
    [k \in DOMAIN cells |->
        IF cells[k].isMine THEN [cells[k] EXCEPT !.isRevealed = TRUE] ELSE cells[k]]

\* Mutant: only the neighbours that are zero-count themselves are added.
NewNeighbors_OnlyZeroCount(key, newCellStates, newQueue) ==
    LET Fresh(nKey) == /\ nKey \in DOMAIN newCellStates
                       /\ ~newCellStates[nKey].isRevealed
                       /\ ~newCellStates[nKey].isFlagged
                       /\ newCellStates[nKey].neighborMineCount = 0
                       /\ ~Contains(newQueue, nKey)
    IN  SelectSeq(getNeighbors(key, Range(pillarConfigs)), Fresh)

\* Mutant: the newQueue.includes test left out.
NewNeighbors_IgnoresPending(key, newCellStates, newQueue) ==
    LET Fresh(nKey) == /\ nKey \in DOMAIN newCellStates
                       /\ ~newCellStates[nKey].isRevealed
                       /\ ~newCellStates[nKey].isFlagged
    IN  SelectSeq(getNeighbors(key, Range(pillarConfigs)), Fresh)

\* The neighbours a zero-count cell puts in front of the queue.
NewNeighbors(key, newCellStates, newQueue) ==
    LET Fresh(nKey) == /\ nKey \in DOMAIN newCellStates
                       /\ ~newCellStates[nKey].isRevealed
                       /\ ~newCellStates[nKey].isFlagged
                       /\ ~Contains(newQueue, nKey)
    IN  SelectSeq(getNeighbors(key, Range(pillarConfigs)), Fresh)

\* Mutant: the isMine test left out, hidden mines are counted too.
UnrevealedSafeCells_CountsMines(cells) ==
    Cardinality({k \in DOMAIN cells : ~cells[k].isRevealed})

UnrevealedSafeCells(cells) ==
    Cardinality({k \in DOMAIN cells : ~cells[k].isMine /\ ~cells[k].isRevealed})

\* One tick of the interval App keeps running while isRevealing is true.
processRevealQueue ==
    /\ isRevealing
    /\ IF Len(revealQueue) = 0
       THEN /\ isRevealing' = FALSE
            /\ UNCHANGED <<placement, pillarConfigs, cellStates, gameStatus, mineCount, flagCount,
                           revealQueue, immortalMode, gameResetTrigger, pendingInits, flagToggled>>
       ELSE
         LET key == Head(revealQueue)
             newQueue == QueueRest(revealQueue)
         IN  IF \/ gameStatus # "playing"
                \/ key \notin DOMAIN cellStates
                \/ cellStates[key].isRevealed
                \/ cellStates[key].isFlagged
             THEN /\ revealQueue' = newQueue
                  /\ UNCHANGED <<placement, pillarConfigs, cellStates, gameStatus, mineCount, flagCount,
                                 isRevealing, immortalMode, gameResetTrigger, pendingInits, flagToggled>>
             ELSE IF cellStates[key].isMine
             THEN IF immortalMode
                  THEN /\ cellStates' = [cellStates EXCEPT ![key] =
                              [@ EXCEPT !.isRevealed = TRUE, !.isFlagged = TRUE,
                                        !.isImmortalMine = TRUE]]
                       /\ revealQueue' = newQueue
                       /\ UNCHANGED <<placement, pillarConfigs, gameStatus, mineCount, flagCount,
                                      isRevealing, immortalMode, gameResetTrigger,
                                      pendingInits, flagToggled>>
                  ELSE /\ cellStates' = RevealAllMines(cellStates)
                       /\ gameStatus' = "lost"
                       /\ revealQueue' = <<>>
                       /\ isRevealing' = FALSE
                       /\ UNCHANGED <<placement, pillarConfigs, mineCount, flagCount, immortalMode,
                                      gameResetTrigger, pendingInits, flagToggled>>
             ELSE
               LET newCellStates == [cellStates EXCEPT ![key] =
                                        [@ EXCEPT !.isRevealed = TRUE, !.isFlagged = FALSE]]
                   cell == newCellStates[key]
                   expanded == IF cell.neighborMineCount = 0 /\ ~cell.isMine
                               THEN NewNeighbors(key, newCellStates, newQueue) \o newQueue
                               ELSE newQueue
               IN  IF UnrevealedSafeCells(newCellStates) = 0
                   THEN /\ cellStates' = newCellStates
                        /\ gameStatus' = "won"
                        /\ revealQueue' = <<>>
                        /\ isRevealing' = FALSE
                        /\ UNCHANGED <<placement, pillarConfigs, mineCount, flagCount, immortalMode,
                                       gameResetTrigger, pendingInits, flagToggled>>
                   ELSE /\ cellStates' = newCellStates
                        /\ revealQueue' = expanded
                        /\ UNCHANGED <<placement, pillarConfigs, gameStatus, mineCount, flagCount,
                                       isRevealing, immortalMode, gameResetTrigger,
                                       pendingInits, flagToggled>>
    /\ clickedKeys' = clickedKeys \cap Range(revealQueue')

\* processRevealQueue on a non-empty queue, as a function of the fields it
\* reads and writes: st = [cells, status, queue].
processEntry(st) ==
    LET key == Head(st.queue)
        newQueue == QueueRest(st.queue)
    IN  IF \/ st.status # "playing"
           \/ key \notin DOMAIN st.cells
           \/ st.cells[key].isRevealed
           \/ st.cells[key].isFlagged
        THEN [st EXCEPT !.queue = newQueue]
        ELSE IF st.cells[key].isMine
        THEN IF immortalMode
             THEN [st EXCEPT !.cells[key] = [@ EXCEPT !.isRevealed = TRUE,
                                                      !.isFlagged = TRUE,
                                                      !.isImmortalMine = TRUE],
                             !.queue = newQueue]
             ELSE [cells |-> RevealAllMines(st.cells), status |-> "lost", queue |-> <<>>]
        ELSE
          LET newCellStates == [st.cells EXCEPT ![key] =
                                   [@ EXCEPT !.isRevealed = TRUE, !.isFlagged = FALSE]]
              cell == newCellStates[key]
              expanded == IF cell.neighborMineCount = 0 /\ ~cell.isMine
                          THEN NewNeighbors(key, newCellStates, newQueue) \o newQueue
                          ELSE newQueue
          IN  IF UnrevealedSafeCells(newCellStates) = 0
              THEN [cells |-> newCellStates, status |-> "won", queue |-> <<>>]
              ELSE [cells |-> newCellStates, status |-> st.status, queue |-> expanded]

\* The ticks of the interval, repeated until the queue is empty.
RECURSIVE drainQueue(_)
drainQueue(st) ==
    IF Len(st.queue) = 0 THEN st ELSE drainQueue(processEntry(st))

(* --------------------------- the specification ------------------------- *)
RevealCellStep == \E key \in AllKeys : revealCell(key)
ToggleFlagStep == \E key \in AllKeys : toggleFlag(key)
\* A click is taken while fewer than MaxQueue entries are pending.
AddToRevealQueueStep ==
    /\ Len(revealQueue) < MaxQueue
    /\ \E key \in AllKeys : addToRevealQueue(key)
SetImmortalModeStep == \E immortal \in BOOLEAN : setImmortalMode(immortal)

Next ==
    \/ HexGridInit
    \/ DelayedInit
    \/ resetGame
    \/ SetImmortalModeStep
    \/ RevealCellStep
    \/ ToggleFlagStep
    \/ AddToRevealQueueStep
    \/ processRevealQueue


Spec == Init /\ [][Next]_vars

\* Normal mode, on boards with one and two mines: immortal mode is never
\* enabled.
NormalGridInit == HexGridInitFrom(NormalLayouts)

NormalNext ==
    \/ NormalGridInit
    \/ RevealCellStep
    \/ ToggleFlagStep
    \/ AddToRevealQueueStep
    \/ processRevealQueue

NormalSpec == Init /\ [][NormalNext]_vars

\* initializeGame taken alone on the store as constructed, on every board and
\* requested mine count of the bounds, with Math.random() ranging over all of
\* 0/10 .. 9/10.  initializeGame reads nothing of the previous board.
GenInitialize ==
    /\ Len(pillarConfigs) = 0
    /\ \E layout \in GenLayouts : \E target \in 0..MaxTarget :
          initializeGame(layout, target, 10)
    /\ UNCHANGED <<placement, clickedKeys, revealQueue, isRevealing, immortalMode, gameResetTrigger, pendingInits>>

GenSpec == Init /\ [][GenInitialize]_vars

\* The application as it runs: its tiles reveal through the queue only.
QueueNext ==
    \/ HexGridInit
    \/ DelayedInit
    \/ resetGame
    \/ SetImmortalModeStep
    \/ ToggleFlagStep
    \/ AddToRevealQueueStep
    \/ processRevealQueue

QueueSpec == Init /\ [][QueueNext]_vars

\* Sessions that click ahead: on the seven-cell board, in both play modes,
\* the player clicks while an earlier request is still pending.
OrderGridInit == HexGridInitFrom({Gap7})

ClickAheadStep ==
    /\ Len(revealQueue) < MaxPending
    /\ \E key \in AllKeys : addToRevealQueue(key)

OrderNext ==
    \/ OrderGridInit
    \/ SetImmortalModeStep
    \/ ToggleFlagStep
    \/ ClickAheadStep
    \/ processRevealQueue

OrderSpec == Init /\ [][OrderNext]_vars

\* The 5 x 5 board with every cell present and its one mine on the first
\* cell, <<0, 0>>: Math.random() returns a value below 1/25.
Grid25 == generateGrid(5, 5, {})

ScenarioInit ==
    /\ Len(pillarConfigs) = 0
    /\ initializeGame(Grid25, 1, 1)
    /\ UNCHANGED <<placement, clickedKeys, revealQueue, isRevealing, immortalMode, gameResetTrigger, pendingInits>>

ScenarioClick ==
    /\ Len(revealQueue) < MaxQueue
    /\ \E key \in Range(Grid25) : addToRevealQueue(key)

ScenarioNext ==
    \/ ScenarioInit
    \/ ScenarioClick
    \/ processRevealQueue

\* Normal-mode play on that board, the interval ticking while isRevealing.
ScenarioSpec == Init /\ [][ScenarioNext]_vars /\ WF_vars(processRevealQueue)

\* The 40 ms interval of App keeps ticking while isRevealing is true.
LiveSpec == Init /\ [][Next]_vars /\ WF_vars(processRevealQueue)

(* ------------------ generateSolvablePuzzle step by step ----------------- *)
\* const maxMineCount = Math.min(targetMineCount, Math.floor(totalCells * 0.2))
maxMineCount == Min(placement.targetMineCount, Floor20(Len(placement.pillarConfigs)))

\* The call: the first attempt starts with an empty set of mines.
generateSolvablePuzzleCall ==
    /\ placement.pc = "idle"
    /\ \E layout \in PlaceLayouts : \E target \in 0..MaxPlaceTarget :
          placement' = [pc |-> "while", pillarConfigs |-> layout,
                        targetMineCount |-> target, attempt |-> 0,
                        minePositions |-> {}, randomIndex |-> -1,
                        actualMineCount |-> -1]
    /\ UNCHANGED storeVars

\* Mutant: the filter on minePositions left out, all neighbours are counted.
WhileDraw_CountsAllNeighbours(randomIndex) ==
    /\ placement.pc = "while"
    /\ Cardinality(placement.minePositions) < maxMineCount
    /\ randomIndex \in 0..(Len(placement.pillarConfigs) - 1)
    /\ LET candidateKey == placement.pillarConfigs[randomIndex + 1]
           neighbors == getNeighbors(candidateKey, Range(placement.pillarConfigs))
           neighborMineCount == Len(neighbors)
       IN  placement' =
             [placement EXCEPT
                !.randomIndex = randomIndex,
                !.minePositions = IF neighborMineCount < 3
                                  THEN placement.minePositions \cup {candidateKey}
                                  ELSE placement.minePositions]
    /\ UNCHANGED storeVars

\* Mutant: a candidate with three mined neighbours is accepted too.
WhileDraw_AcceptsThree(randomIndex) ==
    /\ placement.pc = "while"
    /\ Cardinality(placement.minePositions) < maxMineCount
    /\ randomIndex \in 0..(Len(placement.pillarConfigs) - 1)
    /\ LET candidateKey == placement.pillarConfigs[randomIndex + 1]
           neighbors == getNeighbors(candidateKey, Range(placement.pillarConfigs))
           neighborMineCount == CountIn(neighbors, placement.minePositions)
       IN  placement' =
             [placement EXCEPT
                !.randomIndex = randomIndex,
                !.minePositions = IF neighborMineCount <= 3
                                  THEN placement.minePositions \cup {candidateKey}
                                  ELSE placement.minePositions]
    /\ UNCHANGED storeVars

\* One pass of the while loop with Math.floor(Math.random() * totalCells)
\* = randomIndex: the candidate is added when fewer than 3 of its neighbours
\* are mines already (adding a mine already placed changes nothing).
WhileDraw(randomIndex) ==
    /\ placement.pc = "while"
    /\ Cardinality(placement.minePositions) < maxMineCount
    /\ randomIndex \in 0..(Len(placement.pillarConfigs) - 1)
    /\ LET candidateKey == placement.pillarConfigs[randomIndex + 1]
           neighbors == getNeighbors(candidateKey, Range(placement.pillarConfigs))
           neighborMineCount == CountIn(neighbors, placement.minePositions)
       IN  placement' =
             [placement EXCEPT
                !.randomIndex = randomIndex,
                !.minePositions = IF neighborMineCount < 3
                                  THEN placement.minePositions \cup {candidateKey}
                                  ELSE placement.minePositions]
    /\ UNCHANGED storeVars

\* Every index a draw can give on the boards of PlaceLayouts.
DrawIndexes == 0..(Len(Grid20) - 1)

WhileDrawStep == \E randomIndex \in DrawIndexes : WhileDraw(randomIndex)

\* The while loop is left and the first attempt returns: the return
\* statement ends the for loop in its first pass, whatever the set is.
ReturnFirstAttempt ==
    /\ placement.pc = "while"
    /\ ~(Cardinality(placement.minePositions) < maxMineCount)
    /\ placement' = [placement EXCEPT
                        !.pc = "returned",
                        !.actualMineCount = Cardinality(placement.minePositions)]
    /\ UNCHANGED storeVars

PlaceNext ==
    \/ generateSolvablePuzzleCall
    \/ WhileDrawStep
    \/ ReturnFirstAttempt

PlaceSpec == Init /\ [][PlaceNext]_vars

\* The engine keeps running the loop; nothing is assumed of the draws.
PlaceRunSpec == PlaceSpec /\ WF_vars(PlaceNext)

\* Fair draws: an index whose draw would change the set is drawn in the end.
PlaceFairSpec ==
    /\ PlaceSpec
    /\ WF_vars(ReturnFirstAttempt)
    /\ \A randomIndex \in DrawIndexes : WF_vars(WhileDraw(randomIndex))

\* Sessions on the two-mine board in which immortal mode is switched on and
\* off: a mine can be hit in immortal mode and the other one in normal mode.
ImmortalGridInit == HexGridInitFrom({Strip14})

ImmortalNext ==
    \/ ImmortalGridInit
    \/ SetImmortalModeStep
    \/ RevealCellStep
    \/ ToggleFlagStep
    \/ AddToRevealQueueStep
    \/ processRevealQueue

ImmortalSpec == Init /\ [][ImmortalNext]_vars

(* ------------------------------- the claims ---------------------------- *)
Keys == DOMAIN cellStates

AllSafeRevealed == \A k \in Keys : ~cellStates[k].isMine => cellStates[k].isRevealed

\* C1: on a non-empty board, status is won if and only if every non-mine
\* cell is revealed, whichever reveal entry point and play mode was used.
C1_WonIffAllSafeRevealed ==
    Len(pillarConfigs) > 0 => (gameStatus = "won" <=> AllSafeRevealed)

Mines == {k \in Keys : cellStates[k].isMine}

HeadIsHiddenMine ==
    /\ Len(revealQueue) > 0
    /\ Head(revealQueue) \in Keys
    /\ cellStates[Head(revealQueue)].isMine
    /\ ~cellStates[Head(revealQueue)].isRevealed
    /\ ~cellStates[Head(revealQueue)].isFlagged

\* C2: in normal mode, a tick that processes a hidden, unflagged mine while
\* the game is playing ends in status lost with every mine revealed, no
\* non-mine cell's isRevealed changed (so one cell revealed when the board
\* has one mine), the queue empty and isRevealing false.
C2_MineHitLosesAndShowsAllMines ==
    [][ (/\ ~immortalMode
         /\ gameStatus = "playing"
         /\ HeadIsHiddenMine
         /\ processRevealQueue)
        => (/\ gameStatus' = "lost"
            /\ \A k \in Keys : cellStates[k].isMine => cellStates'[k].isRevealed
            /\ \A k \in Keys : ~cellStates[k].isMine =>
                   cellStates'[k].isRevealed = cellStates[k].isRevealed
            /\ mineCount = 1 =>
                   Cardinality({k \in Keys : cellStates'[k].isRevealed
                                               # cellStates[k].isRevealed}) = 1
            /\ revealQueue' = <<>>
            /\ isRevealing' = FALSE) ]_vars

\* A lost game on the two-mine board: both mines shown, safe cells hidden.
C2_Witness ==
    /\ gameStatus = "lost"
    /\ mineCount = 2
    /\ \A k \in Mines : cellStates[k].isRevealed
    /\ \E k \in Keys : ~cellStates[k].isMine /\ ~cellStates[k].isRevealed
    /\ revealQueue = <<>>
    /\ isRevealing = FALSE

\* C3: once status is won or lost, only a reset (resetGame, or the board
\* installation resetGame scheduled) changes it; every addToRevealQueue,
\* processRevealQueue, revealCell and toggleFlag step leaves the cell states,
\* flagCount and status as they are.
C3_TerminalStatusIsFrozen ==
    [][ (gameStatus \in {"won", "lost"} /\ ~resetGame /\ ~DelayedInit)
        => UNCHANGED <<cellStates, flagCount, gameStatus>> ]_vars

\* A lost game with reveal requests still pending, which ticks then discard.
C3_Witness ==
    /\ gameStatus = "lost"
    /\ Len(revealQueue) > 0
    /\ isRevealing

\* The six axial unit offsets of a hexagonal cell.
AxialOffsets ==
    {<<1, 0>>, <<1, -1>>, <<0, -1>>, <<-1, 0>>, <<-1, 1>>, <<0, 1>>}

MinedNeighbours(c) ==
    {n \in Keys : /\ <<n[1] - c[1], n[2] - c[2]>> \in AxialOffsets
                  /\ cellStates[n].isMine}

\* C4: after initializeGame, neighborMineCount of every cell is the number
\* of its axial neighbours that are on the board and are mines (so 0..6).
C4_AdjacencyCorrect ==
    \A c \in Keys :
        /\ cellStates[c].neighborMineCount = Cardinality(MinedNeighbours(c))
        /\ cellStates[c].neighborMineCount \in 0..6

\* A board on which a cell has two mined neighbours and another has none.
C4_Witness ==
    /\ \E c \in Keys : cellStates[c].neighborMineCount = 2
    /\ \E c \in Keys : cellStates[c].neighborMineCount = 0
    /\ \E c \in Keys : cellStates[c].isMine /\ cellStates[c].neighborMineCount = 1

\* The cascade is closed: every non-mine neighbour of a revealed zero-count
\* safe cell is revealed.
CascadeClosed ==
    \A c \in Keys :
        (/\ cellStates[c].isRevealed
         /\ ~cellStates[c].isMine
         /\ cellStates[c].neighborMineCount = 0)
        => \A n \in Keys :
              (<<n[1] - c[1], n[2] - c[2]>> \in AxialOffsets /\ ~cellStates[n].isMine)
              => cellStates[n].isRevealed

Drained == revealQueue = <<>> /\ ~isRevealing

\* An addToRevealQueue call that appends its key.
Appended == AddToRevealQueueStep /\ revealQueue' # revealQueue

\* C6: if addToRevealQueue stops being called, the ticks of
\* processRevealQueue drain the queue and isRevealing becomes false: every
\* run either keeps appending requests for ever or is drained again and
\* again.
\* Each tick on a non-empty queue discards its front entry or reveals a cell
\* that was hidden.
C6_TicksDrainTheQueue ==
    /\ []<>Drained \/ []<><<Appended>>_vars
    /\ [][ (processRevealQueue /\ Len(revealQueue) > 0)
           => \/ cellStates' = cellStates /\ revealQueue' = Tail(revealQueue)
              \/ /\ Head(revealQueue) \in DOMAIN cellStates
                 /\ ~cellStates[Head(revealQueue)].isRevealed
                 /\ cellStates'[Head(revealQueue)].isRevealed ]_vars

\* A cascade under way: a zero-count cell is revealed and its neighbours
\* wait in the queue.
C6_Witness ==
    /\ Len(revealQueue) >= 2
    /\ isRevealing
    /\ gameStatus = "playing"
    /\ \E c \in Keys : /\ cellStates[c].isRevealed
                       /\ ~cellStates[c].isMine
                       /\ cellStates[c].neighborMineCount = 0

\* C7: after initializeGame(layout, target) the number of mines on the board
\* is mineCount, and it is min(target, floor(0.20 * n)) for n cells.
C7_MineCountIsMinOfTargetAndCap ==
    [][ \A layout \in GenLayouts : \A target \in 0..MaxTarget :
          initializeGame(layout, target, 10)
          => /\ mineCount' = Min(target, Len(layout) \div 5)
             /\ Cardinality({k \in DOMAIN cellStates' : cellStates'[k].isMine})
                    = mineCount'
             /\ mineCount' <= target
             /\ 5 * mineCount' <= Len(layout) ]_vars

\* A ten-cell board with the two mines the 20% cap allows.
C7_Witness ==
    /\ Len(pillarConfigs) = 10
    /\ mineCount = 2
    /\ Cardinality(Mines) = 2

\* C8: in normal mode no cell is both revealed and flagged, also after the
\* game is lost.
C8_NeverRevealedAndFlagged ==
    \A k \in Keys : ~(cellStates[k].isRevealed /\ cellStates[k].isFlagged)

Flagged == {k \in Keys : cellStates[k].isFlagged}

\* C9: flagCount is the number of flagged cells, in normal and immortal mode.
C9_FlagCountCountsFlags == flagCount = Cardinality(Flagged)

IsHiddenFlagged(key) ==
    /\ key \in Keys
    /\ cellStates[key].isFlagged
    /\ ~cellStates[key].isRevealed

\* C10: a reveal request for a flagged cell never reveals it: addToRevealQueue
\* (and revealCell) on it change nothing, a tick whose front entry is a
\* flagged cell discards the entry and leaves every cell as it is; and a
\* tick whose front entry is a hidden, unflagged cell of a game that is
\* playing reveals that cell.
C10_FlaggedCellIsNotRevealedOnRequest ==
    [][ /\ \A key \in AllKeys :
             IsHiddenFlagged(key)
             => /\ addToRevealQueue(key) => UNCHANGED vars
                /\ revealCell(key) => UNCHANGED vars
                /\ (processRevealQueue /\ Len(revealQueue) > 0 /\ Head(revealQueue) = key)
                   => /\ cellStates' = cellStates
                      /\ revealQueue' = Tail(revealQueue)
                      /\ gameStatus' = gameStatus
        /\ (/\ processRevealQueue
            /\ gameStatus = "playing"
            /\ Len(revealQueue) > 0
            /\ Head(revealQueue) \in Keys
            /\ ~cellStates[Head(revealQueue)].isRevealed
            /\ ~cellStates[Head(revealQueue)].isFlagged)
           => cellStates'[Head(revealQueue)].isRevealed ]_vars

\* A request is at the front of the queue and its cell was flagged after it
\* was enqueued.
C10_Witness ==
    /\ gameStatus = "playing"
    /\ Len(revealQueue) > 0
    /\ IsHiddenFlagged(Head(revealQueue))

\* The cases in which addToRevealQueue refuses a request.
AddIsRefused(key) ==
    \/ key \notin Keys
    \/ cellStates[key].isRevealed
    \/ cellStates[key].isFlagged
    \/ gameStatus # "playing"

\* C11: addToRevealQueue on a key that is on no cell of the board, on a
\* revealed or a flagged cell, or in a game that is not playing, leaves the
\* whole state as it is, however often it is called.
C11_RefusedRevealRequestChangesNothing ==
    [][ \A key \in AllKeys :
          (AddIsRefused(key) /\ addToRevealQueue(key)) => UNCHANGED vars ]_vars

\* A game that is playing, at rest, with a revealed cell and with a flagged
\* one the player can click.
C11_Witness ==
    /\ gameStatus = "playing"
    /\ revealQueue = <<>>
    /\ \E k \in AllKeys \cap Keys : cellStates[k].isRevealed
    /\ \E k \in AllKeys : IsHiddenFlagged(k)

\* The cases in which toggleFlag refuses to act.
FlagIsRefused(key) ==
    \/ key \notin Keys
    \/ cellStates[key].isRevealed
    \/ gameStatus \in {"won", "lost"}

\* C12: toggleFlag on a revealed cell, on a key that is on no cell of the
\* board, or after the game is won or lost, leaves the whole state as it is.
C12_RefusedFlagChangesNothing ==
    [][ \A key \in AllKeys :
          (FlagIsRefused(key) /\ toggleFlag(key)) => UNCHANGED vars ]_vars

\* A lost game with a cell that is still hidden and one that is revealed.
C12_Witness ==
    /\ gameStatus = "lost"
    /\ \E k \in AllKeys \cap Keys : ~cellStates[k].isRevealed /\ ~cellStates[k].isFlagged
    /\ \E k \in AllKeys \cap Keys : cellStates[k].isRevealed

\* C13: in immortal mode a tick that processes a hidden, unflagged mine marks
\* that cell revealed, flagged and immortal, changes no other cell, leaves
\* the game playing and keeps the entries behind it in the queue.
C13_ImmortalMineHitMarksOneCell ==
    [][ (/\ immortalMode
         /\ gameStatus = "playing"
         /\ HeadIsHiddenMine
         /\ processRevealQueue)
        => (LET key == Head(revealQueue)
            IN  /\ DOMAIN cellStates' = Keys
                /\ cellStates'[key].isRevealed
                /\ cellStates'[key].isFlagged
                /\ cellStates'[key].isImmortalMine
                /\ cellStates'[key].isMine
                /\ \A k \in Keys \ {key} : cellStates'[k] = cellStates[k]
                /\ gameStatus' = "playing"
                /\ revealQueue' = Tail(revealQueue)
                /\ isRevealing') ]_vars

\* Immortal mode, a hidden mine at the front of the queue and another
\* request behind it.
C13_Witness ==
    /\ immortalMode
    /\ gameStatus = "playing"
    /\ isRevealing
    /\ HeadIsHiddenMine
    /\ Len(revealQueue) >= 2

\* C14: resetGame is accepted in every status and at every point, also with
\* entries in the queue, and the state right after it has an empty queue,
\* isRevealing false and status playing.
C14_ResetClearsQueueAndPlays ==
    /\ [](gameResetTrigger < MaxResets => ENABLED resetGame)
    /\ [][ resetGame => /\ revealQueue' = <<>>
                        /\ isRevealing' = FALSE
                        /\ gameStatus' = "playing" ]_vars

\* A cascade under way, with entries pending, at a point where resetGame
\* can still be called.
C14_Witness ==
    /\ gameResetTrigger < MaxResets
    /\ isRevealing
    /\ Len(revealQueue) > 0
    /\ \E c \in Keys : /\ cellStates[c].isRevealed
                       /\ cellStates[c].neighborMineCount = 0

\* A step of the grid component or of resetGame's delayed callback that
\* installs the board arr.
Installs(arr) ==
    /\ Len(arr) > 0
    /\ HexGridInit \/ DelayedInit
    /\ initializeGame(arr, Floor15(Len(arr)), MaxRandom)

\* C15: nothing is carried over to a new board: when a board is installed
\* all its cells are hidden and unflagged, flagCount is 0, the status is
\* playing and the queue holds no entry (an entry it held would have been
\* enqueued against an earlier board).
C15_NothingCarriedOverAReset ==
    [][ \A arr \in Layouts :
          Installs(arr)
          => /\ \A k \in DOMAIN cellStates' : /\ ~cellStates'[k].isRevealed
                                               /\ ~cellStates'[k].isFlagged
             /\ flagCount' = 0
             /\ gameStatus' = "playing"
             /\ revealQueue' = <<>> ]_vars

\* The store fields the two reveal paths work on.
Board == [cells |-> cellStates, status |-> gameStatus]

\* C16: from every board at rest and every hidden, unflagged cell, the
\* synchronous revealCell and the queued path (addToRevealQueue, then ticks
\* until the queue is empty) end with the same isRevealed and isFlagged on
\* every cell and with the same status.
C16_SynchronousAndQueuedRevealAgree ==
    (gameStatus = "playing" /\ revealQueue = <<>>)
    => \A key \in Keys :
         (~cellStates[key].isRevealed /\ ~cellStates[key].isFlagged)
         => LET sync == revealCellRec(key, Board)
                queued == drainQueue([cells |-> cellStates, status |-> gameStatus,
                                      queue |-> <<key>>])
            IN  /\ sync.status = queued.status
                /\ \A k \in Keys :
                      /\ sync.cells[k].isRevealed = queued.cells[k].isRevealed
                      /\ sync.cells[k].isFlagged = queued.cells[k].isFlagged

\* The 5 x 5 board as installed, with a reveal of <<2, 2>> just enqueued.
ScenarioAStart ==
    /\ pillarConfigs = Grid25
    /\ Mines = {<<0, 0>>}
    /\ \A k \in Keys : ~cellStates[k].isRevealed
    /\ revealQueue = << <<2, 2>> >>
    /\ isRevealing

\* The 24 safe cells revealed, the mine hidden, the game won.
ScenarioAEnd ==
    /\ pillarConfigs = Grid25
    /\ gameStatus = "won"
    /\ Cardinality({k \in Keys : cellStates[k].isRevealed /\ ~cellStates[k].isMine}) = 24
    /\ ~cellStates[<<0, 0>>].isRevealed
    /\ revealQueue = <<>>
    /\ ~isRevealing

\* C17: on the 5 x 5 board with its mine at <<0, 0>>, a reveal of <<2, 2>>
\* and the ticks that follow reveal all 24 safe cells, leave the mine hidden
\* and win the game.
C17_ScenarioARevealsAllAndWins == ScenarioAStart ~> ScenarioAEnd

\* The end of the scenario, reached by the cascade from <<2, 2>>.
C17_Witness ==
    /\ ScenarioAEnd
    /\ cellStates[<<2, 2>>].neighborMineCount = 0
    /\ cellStates[<<0, 0>>].isMine

\* A run of the board generation: by the grid component or by resetGame's
\* delayed callback.
GenerationStep == HexGridInit \/ DelayedInit

\* C18: a generation that yields an empty layout or places no mine is made
\* known to the caller: it does not leave the session playing on an empty
\* board or on a board without mines.  (The store has no other way to show
\* a failure than a status that is not playing.)
C18_GenerationFailureIsSurfaced ==
    [][ GenerationStep
        => ~(/\ gameStatus' = "playing"
             /\ (Len(pillarConfigs') = 0 \/ mineCount' = 0)) ]_vars

\* The front entry is a hidden, unflagged safe cell without mined
\* neighbours: the tick that processes it expands it.
HeadExpands ==
    /\ Len(revealQueue) > 0
    /\ Head(revealQueue) \in Keys
    /\ ~cellStates[Head(revealQueue)].isRevealed
    /\ ~cellStates[Head(revealQueue)].isFlagged
    /\ ~cellStates[Head(revealQueue)].isMine
    /\ cellStates[Head(revealQueue)].neighborMineCount = 0

\* The neighbours of key, in the order of the offsets, that are on the
\* board, hidden, unflagged and not in pending.
FreshNeighbours(key, pending) ==
    LET cand == [i \in 1..6 |-> <<key[1] + neighborOffsets[i][1],
                                  key[2] + neighborOffsets[i][2]>>]
        Fresh(n) == /\ n \in Keys
                    /\ ~cellStates[n].isRevealed
                    /\ ~cellStates[n].isFlagged
                    /\ \A j \in 1..Len(pending) : pending[j] # n
    IN  SelectSeq(cand, Fresh)

\* C19: an accepted addToRevealQueue appends its key at the back of the
\* queue and sets isRevealing; a tick takes the front entry (no cell but
\* the front entry's changes, the entries behind it stay, in their order,
\* at the back of the queue), and when it expands a zero-count cell the
\* neighbours it adds stand in front of them, in the order of the offsets.
C19_QueueOrder ==
    [][ /\ \A key \in AllKeys :
             (~AddIsRefused(key) /\ addToRevealQueue(key))
             => /\ revealQueue' = Append(revealQueue, key)
                /\ isRevealing' = TRUE
        /\ (/\ processRevealQueue
            /\ Len(revealQueue) > 0
            /\ gameStatus = "playing"
            /\ gameStatus' = "playing")
           => LET key == Head(revealQueue)
                  pending == Tail(revealQueue)
              IN  /\ \A k \in Keys \ {key} : cellStates'[k] = cellStates[k]
                  /\ revealQueue' = (IF HeadExpands
                                     THEN FreshNeighbours(key, pending)
                                     ELSE <<>>) \o pending ]_vars

\* A zero-count cell at the front of the queue with hidden neighbours, and
\* an earlier request of the player pending behind it.
C19_Witness ==
    /\ gameStatus = "playing"
    /\ isRevealing
    /\ HeadExpands
    /\ Len(revealQueue) >= 2
    /\ Len(FreshNeighbours(Head(revealQueue), Tail(revealQueue))) >= 2

NoDuplicates(queue) ==
    \A i, j \in 1..Len(queue) : i # j => queue[i] # queue[j]

\* An accepted addToRevealQueue for a key that is pending already.
DuplicateRequest ==
    \E key \in AllKeys : /\ ~AddIsRefused(key)
                          /\ \E i \in 1..Len(revealQueue) : revealQueue[i] = key
                          /\ addToRevealQueue(key)

\* C20: every entry a tick adds to the queue is a neighbour of the cell it
\* processed that is on the board, hidden, unflagged and was not pending;
\* hence a queue without duplicates stays without duplicates in every step
\* other than an addToRevealQueue for a key that is pending already.
C20_ExpansionAddsNoDuplicate ==
    [][ /\ (processRevealQueue /\ Len(revealQueue) > 0)
           => LET key == Head(revealQueue)
                  pending == Tail(revealQueue)
              IN  \A i \in 1..(Len(revealQueue') - Len(pending)) :
                     LET n == revealQueue'[i]
                     IN  /\ n \in Keys
                         /\ <<n[1] - key[1], n[2] - key[2]>> \in AxialOffsets
                         /\ ~cellStates'[n].isRevealed
                         /\ ~cellStates'[n].isFlagged
                         /\ \A j \in 1..Len(pending) : pending[j] # n
        /\ (NoDuplicates(revealQueue) /\ ~DuplicateRequest)
           => NoDuplicates(revealQueue') ]_vars

\* A zero-count cell at the front of the queue, and one of its hidden
\* neighbours pending behind it.
C20_Witness ==
    /\ gameStatus = "playing"
    /\ isRevealing
    /\ HeadExpands
    /\ NoDuplicates(revealQueue)
    /\ \E j \in 2..Len(revealQueue) :
          LET n == revealQueue[j]
              key == Head(revealQueue)
          IN  /\ <<n[1] - key[1], n[2] - key[2]>> \in AxialOffsets
              /\ ~cellStates[n].isRevealed
              /\ ~cellStates[n].isFlagged

\* What the ticks make of the board once queue has drained.
Drained2(queue) ==
    drainQueue([cells |-> cellStates, status |-> gameStatus, queue |-> queue])

\* A step that installs or clears a board: the end of a session.
SessionEnds == HexGridInit \/ DelayedInit \/ resetGame \/ OrderGridInit

\* C21: a key enqueued twice does not change the outcome.  A tick whose
\* front entry is a cell revealed already (as the second of two equal
\* entries is) drops that entry and changes no cell and not the status;
\* from every state, the board and status after the queue has drained are
\* the same whether a hidden cell is appended once or twice; and within a
\* session no cell goes back from revealed to hidden.
C21_DuplicateEntryChangesNothing ==
    /\ [](gameStatus = "playing"
          => \A key \in Keys :
                (~cellStates[key].isRevealed /\ ~cellStates[key].isFlagged)
                => LET once == Drained2(Append(revealQueue, key))
                       twice == Drained2(Append(Append(revealQueue, key), key))
                   IN  once.cells = twice.cells /\ once.status = twice.status)
    /\ [][ (/\ processRevealQueue
            /\ Len(revealQueue) > 0
            /\ Head(revealQueue) \in Keys
            /\ cellStates[Head(revealQueue)].isRevealed)
           => /\ cellStates' = cellStates
              /\ gameStatus' = gameStatus
              /\ revealQueue' = Tail(revealQueue) ]_vars
    /\ [][ ~SessionEnds
           => \A k \in Keys : cellStates[k].isRevealed
                                => (k \in DOMAIN cellStates' /\ cellStates'[k].isRevealed) ]_vars

\* The same hidden cell is pending twice, with nothing between the two
\* entries.
C21_Witness ==
    /\ gameStatus = "playing"
    /\ Len(revealQueue) = 2
    /\ revealQueue[1] = revealQueue[2]
    /\ revealQueue[1] \in Keys
    /\ ~cellStates[revealQueue[1]].isRevealed
    /\ ~cellStates[revealQueue[1]].isFlagged

\* C22: toggleFlag on a hidden cell of the board while the status is playing
\* flips isFlagged of that cell and nothing else of it, moves flagCount by
\* +1 when the flag is set and by -1 when it is taken away, and leaves
\* every other cell, the queue, isRevealing and the status as they were;
\* flagCount is never negative.
C22_ToggleFlagTouchesOneCell ==
    /\ [](flagCount >= 0)
    /\ [][ \A key \in Keys :
             (/\ gameStatus = "playing"
              /\ ~cellStates[key].isRevealed
              /\ toggleFlag(key))
             => /\ DOMAIN cellStates' = DOMAIN cellStates
                /\ cellStates'[key] =
                       [cellStates[key] EXCEPT !.isFlagged = ~cellStates[key].isFlagged]
                /\ flagCount' = IF cellStates[key].isFlagged THEN flagCount - 1
                                                              ELSE flagCount + 1
                /\ \A other \in Keys \ {key} : cellStates'[other] = cellStates[other]
                /\ UNCHANGED <<revealQueue, isRevealing, gameStatus>> ]_vars

\* A flag has been set and taken away again while an entry was pending.
C22_Witness ==
    /\ gameStatus = "playing"
    /\ flagToggled
    /\ flagCount = 0
    /\ revealQueue # <<>>
    /\ \A k \in Keys : ~cellStates[k].isFlagged

\* A step of one of the reveal, queue and flag operations of the store.
PlayStep ==
    \/ RevealCellStep
    \/ ToggleFlagStep
    \/ AddToRevealQueueStep
    \/ SetImmortalModeStep
    \/ processRevealQueue

\* C23: no reveal, queue or flag operation (revealCell, toggleFlag,
\* addToRevealQueue, setImmortalMode, processRevealQueue) changes the
\* layout, mineCount, the set of cells, or isMine or neighborMineCount of
\* any cell.
C23_PlayKeepsTheBoard ==
    [][ PlayStep
        => /\ pillarConfigs' = pillarConfigs
           /\ mineCount' = mineCount
           /\ DOMAIN cellStates' = DOMAIN cellStates
           /\ \A k \in DOMAIN cellStates :
                 /\ cellStates'[k].isMine = cellStates[k].isMine
                 /\ cellStates'[k].neighborMineCount = cellStates[k].neighborMineCount ]_vars

\* A game was lost on a board with a flag on it: cells were revealed, a
\* flag was set and the loss branch has shown the mines.
C23_Witness ==
    /\ gameStatus = "lost"
    /\ flagCount > 0
    /\ \E k \in Keys : cellStates[k].isMine /\ cellStates[k].isRevealed
    /\ \E k \in Keys : ~cellStates[k].isMine /\ cellStates[k].isRevealed

\* The mines of the set that are axial neighbours of key.
PlacedNeighbours(key, mines) ==
    {n \in mines : <<n[1] - key[1], n[2] - key[2]>> \in AxialOffsets}

\* C24: in the placement loop the set of mines only grows; a cell is added
\* only when it is the cell just drawn, is on the board and has fewer than 3
\* neighbours among the mines placed before the draw; and the call returns
\* only with min(target, floor(0.20 * n)) distinct mines of the board, which
\* is the count it reports.
C24_MineAddedOnlyBelowThree ==
    /\ [][ placement.pc = "while"
           => /\ placement.minePositions \subseteq placement'.minePositions
              /\ \A key \in placement'.minePositions \ placement.minePositions :
                    /\ key \in Range(placement.pillarConfigs)
                    /\ key = placement.pillarConfigs[placement'.randomIndex + 1]
                    /\ Cardinality(PlacedNeighbours(key, placement.minePositions)) < 3 ]_vars
    /\ [](placement.pc = "returned"
          => /\ placement.minePositions \subseteq Range(placement.pillarConfigs)
             /\ Cardinality(placement.minePositions) =
                   Min(placement.targetMineCount, Len(placement.pillarConfigs) \div 5)
             /\ placement.actualMineCount = Cardinality(placement.minePositions))

\* A cell with three mines around it was drawn and not added, with a mine
\* still to place.
C24_Witness ==
    /\ placement.pc = "while"
    /\ placement.randomIndex >= 0
    /\ LET drawn == placement.pillarConfigs[placement.randomIndex + 1]
       IN  /\ drawn \notin placement.minePositions
           /\ Cardinality(PlacedNeighbours(drawn, placement.minePositions)) >= 3
           /\ Cardinality(placement.minePositions) < maxMineCount

\* C25: mine placement makes at most 10 attempts of the constrained
\* process, and a call whose constrained loop does not come to an end still
\* returns (through the unconstrained fallback), reporting the number of
\* distinct mines in the set it returns.
C25_PlacementAlwaysReturns ==
    /\ [](placement.attempt < 10)
    /\ [](placement.pc = "returned"
          => placement.actualMineCount = Cardinality(placement.minePositions))
    /\ (placement.pc = "while") ~> (placement.pc = "returned")

\* C26: whenever an entry is pending, isRevealing is true, and so the tick
\* (which runs exactly while isRevealing) can take it.
C26_PendingEntryHasATick ==
    revealQueue # <<>> => (isRevealing /\ ENABLED processRevealQueue)

\* A tick has revealed a cell and left its neighbours pending.
C26_Witness ==
    /\ Len(revealQueue) >= 2
    /\ isRevealing
    /\ \E k \in Keys : cellStates[k].isRevealed

\* The entries a tick has put in front of the rest of the queue.
AddedByTick ==
    IF revealQueue # <<>> /\ Len(revealQueue') >= Len(revealQueue)
    THEN {revealQueue'[i] : i \in 1..(Len(revealQueue') - Len(revealQueue) + 1)}
    ELSE {}

\* C27: the expansion of a tick never puts a mine in the queue, and the
\* status becomes lost only in a tick that processes a key addToRevealQueue
\* has put in the queue.
C27_LossOnlyOnAClickedKey ==
    /\ [][ processRevealQueue
           => \A k \in AddedByTick :
                 k \in DOMAIN cellStates' /\ ~cellStates'[k].isMine ]_vars
    /\ [][ (processRevealQueue /\ gameStatus = "playing" /\ gameStatus' = "lost")
           => (revealQueue # <<>> /\ Head(revealQueue) \in clickedKeys) ]_vars

\* C28: a board stays in place until the next resetGame: the grid component
\* and the delayed callbacks of resetGame install a board only when the
\* store holds none, so a board the player can act on is never replaced
\* without a further reset.
C28_BoardStaysUntilReset ==
    [][ \A arr \in Layouts : Installs(arr) => Len(pillarConfigs) = 0 ]_vars

\* The cells of the board under placement that a draw would add to the set.
Placeable ==
    {key \in Range(placement.pillarConfigs) \ placement.minePositions :
        Cardinality(PlacedNeighbours(key, placement.minePositions)) < 3}

\* C29: the placement loop is never stuck: while fewer than
\* min(target, floor(0.20 * n)) mines are placed, some cell of the board that
\* is not a mine has fewer than 3 mined neighbours; and under fair draws
\* the call returns, with exactly that many mines.
C29_PlacementLoopTerminates ==
    /\ []((placement.pc = "while"
           /\ Cardinality(placement.minePositions)
                 < Min(placement.targetMineCount, Len(placement.pillarConfigs) \div 5))
          => Placeable # {})
    /\ (placement.pc = "while")
          ~> (/\ placement.pc = "returned"
              /\ Cardinality(placement.minePositions)
                    = Min(placement.targetMineCount, Len(placement.pillarConfigs) \div 5))

\* The call has returned four mines although a cell that is not a mine has
\* three of them around it.
C29_Witness ==
    /\ placement.pc = "returned"
    /\ Cardinality(placement.minePositions) = 4
    /\ \E key \in Range(placement.pillarConfigs) \ placement.minePositions :
          Cardinality(PlacedNeighbours(key, placement.minePositions)) >= 3

\* C30: a cell with isImmortalMine is revealed and flagged, and stays as it
\* is for the rest of the session: no step changes the cell (a loss after
\* immortal mode is switched off included), and toggleFlag, addToRevealQueue
\* and revealCell on it change nothing at all.
C30_ImmortalMineStaysMarked ==
    /\ [](\A k \in Keys : cellStates[k].isImmortalMine
                          => cellStates[k].isRevealed /\ cellStates[k].isFlagged)
    /\ [][ \A k \in Keys : cellStates[k].isImmortalMine
              => (k \in DOMAIN cellStates' /\ cellStates'[k] = cellStates[k]) ]_vars
    /\ [][ \A k \in Keys :
              (/\ cellStates[k].isImmortalMine
               /\ toggleFlag(k) \/ addToRevealQueue(k) \/ revealCell(k))
              => UNCHANGED vars ]_vars

\* The game was lost in normal mode with an immortal mine on the board.
C30_Witness ==
    /\ gameStatus = "lost"
    /\ ~immortalMode
    /\ \E k \in Keys : /\ cellStates[k].isImmortalMine
                       /\ cellStates[k].isRevealed
                       /\ cellStates[k].isFlagged

====
